---- MODULE Spec2Model ----
(***************************************************************************)
(* GroupVAN example client (clients/python/client.py): the token builder   *)
(* generate_jwt, the dispatcher make_authenticated_request and the two     *)
(* convenience operations get_catalog and list_catalogs, together with     *)
(* the collaborators they call (time.time, jwt.encode, jwt.decode,         *)
(* requests.request, Response.json).                                       *)
(*                                                                         *)
(* Python values are modelled as follows.  A str is a TLA+ string.  A dict *)
(* is a function from its keys.  An optional argument (None, or an omitted *)
(* keyword) is the empty sequence and a supplied one the one-element       *)
(* sequence.  A call that returns v is [kind |-> "return", value |-> v]    *)
(* and a call that raises is [kind |-> "raise", value |-> error].          *)
(* The clock counts ticks of 1/TicksPerSecond second, so that the floor    *)
(* taken by generate_jwt discards something.                               *)
(***************************************************************************)
EXTENDS Integers, Sequences, FiniteSets, TLC

VARIABLES client, clock, call

vars == <<client, clock, call>>

(***************************************************************************)
(* Bounds of the model.                                                    *)
(***************************************************************************)
TicksPerSecond == 2
MaxSubTicks == 1

(***************************************************************************)
(* Program constants.                                                      *)
(***************************************************************************)
DefaultExpiresIn == 300
DefaultLimit == 10
DefaultOffset == 0
StatusOk == 200

None == <<>>
Some(v) == <<v>>

Return(v) == [kind |-> "return", value |-> v]
Raise(type, message) == [kind |-> "raise", value |-> [type |-> type, message |-> message]]

(***************************************************************************)
(* Inputs.                                                                 *)
(***************************************************************************)

\* generate_rsa_key_pair returns (private_pem, public_pem); two pairs.
KeyPairs == {<<"privA", "pubA">>, <<"privB", "pubB">>}
PrivateKeys == {p[1] : p \in KeyPairs}
PublicKeys == {p[2] : p \in KeyPairs}
\* The (developer_id, key_id, private_key_pem) clients are constructed with; the
\* last one is given text that is no private key.
Credentials ==
    {<<"dev_abc123", "key_xyz789", "privA">>,
     <<"test_dev_123", "test_key_456", "privB">>,
     <<"dev_abc123", "test_key_456", "not a key">>}

ExpiresInArgs == {None} \cup {Some(e) : e \in {-5, 0, 300, 600}}

\* Instants (in seconds) around which time.time() is read.
ClockSeconds == {0, 299, 300}
ClockValues == {(s * TicksPerSecond) + k : s \in ClockSeconds, k \in 0..MaxSubTicks}

(***************************************************************************)
(* GroupVANClient.__init__                                                 *)
(***************************************************************************)
GroupVANClient(developer_id, key_id, private_key_pem) ==
    [developer_id |-> developer_id,
     key_id |-> key_id,
     private_key_pem |-> private_key_pem,
     base_url |-> "https://api.groupvan.com/v3"]

(***************************************************************************)
(* math.floor(time.time()) on a clock of ticks.                            *)
(***************************************************************************)
FloorSeconds(now) == now \div TicksPerSecond

(***************************************************************************)
(* jwt.encode(payload, key, algorithm, headers): the header is             *)
(* {"typ": "JWT", "alg": algorithm} updated with headers; the signature is *)
(* made with key over header and payload.  A key that is no private key    *)
(* makes it raise.                                                         *)
(***************************************************************************)
jwt_encode(payload, key, algorithm, headers) ==
    LET header == headers @@ ("typ" :> "JWT") @@ ("alg" :> algorithm)
    IN  IF key \notin PrivateKeys
        THEN Raise("InvalidKeyError", "Could not parse the provided public key.")
        ELSE Return([header |-> header,
                     payload |-> payload,
                     signature |-> [alg |-> algorithm,
                                    signer |-> key,
                                    signing_input |-> <<header, payload>>]])

(***************************************************************************)
(* GroupVANClient.generate_jwt                                             *)
(***************************************************************************)
generate_jwt_fixed_lifetime(self, now, expires_in) ==
    LET current_time == FloorSeconds(now)
        claims == [aud |-> "groupvan",
                   iss |-> self.developer_id,
                   kid |-> self.key_id,
                   exp |-> current_time + DefaultExpiresIn,
                   iat |-> current_time]
    IN  jwt_encode(claims, self.private_key_pem, "RS256",
                   ("gv-ver" :> "GV-JWT-V1") @@ ("kid" :> self.key_id))

generate_jwt_header_kid_is_issuer(self, now, expires_in) ==
    LET current_time == FloorSeconds(now)
        claims == [aud |-> "groupvan",
                   iss |-> self.developer_id,
                   kid |-> self.key_id,
                   exp |-> current_time + expires_in,
                   iat |-> current_time]
    IN  jwt_encode(claims, self.private_key_pem, "RS256",
                   ("gv-ver" :> "GV-JWT-V1") @@ ("kid" :> self.developer_id))

generate_jwt_extra_claim(self, now, expires_in) ==
    LET current_time == FloorSeconds(now)
        claims == [aud |-> "groupvan",
                   iss |-> self.developer_id,
                   kid |-> self.key_id,
                   exp |-> current_time + expires_in,
                   iat |-> current_time,
                   nbf |-> current_time]
    IN  jwt_encode(claims, self.private_key_pem, "RS256",
                   ("gv-ver" :> "GV-JWT-V1") @@ ("kid" :> self.key_id))

generate_jwt_wrong_audience(self, now, expires_in) ==
    LET current_time == FloorSeconds(now)
        claims == [aud |-> "groupvan-api",
                   iss |-> self.developer_id,
                   kid |-> self.key_id,
                   exp |-> current_time + expires_in,
                   iat |-> current_time]
    IN  jwt_encode(claims, self.private_key_pem, "RS256",
                   ("gv-ver" :> "GV-JWT-V1") @@ ("kid" :> self.key_id))

generate_jwt(self, now, expires_in) ==
    LET current_time == FloorSeconds(now)
        claims == [aud |-> "groupvan",
                   iss |-> self.developer_id,
                   kid |-> self.key_id,
                   exp |-> current_time + expires_in,
                   iat |-> current_time]
    IN  jwt_encode(claims, self.private_key_pem, "RS256",
                   ("gv-ver" :> "GV-JWT-V1") @@ ("kid" :> self.key_id))

(***************************************************************************)
(* str(n) for a status code: the decimal digits of n >= 0.                 *)
(***************************************************************************)
RECURSIVE Str(_)
Str(n) ==
    LET digit == SubSeq("0123456789", (n % 10) + 1, (n % 10) + 1)
    IN  IF n < 10 THEN digit ELSE Str(n \div 10) \o digit

(***************************************************************************)
(* What the HTTP transport can answer to requests.request: a response with *)
(* a status code and a body text, or an exception of its own.              *)
(***************************************************************************)
StatusCodes == {199, 200, 201, 299, 300, 404}

\* The bodies a server may send, with the value json.loads gives for those
\* that are JSON.
JsonDocuments == {<<"{\"id\":\"catalog_123\"}", [id |-> "catalog_123"]>>}
BodyTexts == {d[1] : d \in JsonDocuments} \cup {"Catalog not found"}

Responses == [status_code : StatusCodes, text : BodyTexts]
Replies == {Return(r) : r \in Responses}
               \cup {Raise("ConnectionError", "Connection refused")}

(***************************************************************************)
(* Response.json(): the body parsed as JSON, or a decoding error.          *)
(***************************************************************************)
response_json(response) ==
    IF \E d \in JsonDocuments : d[1] = response.text
    THEN Return((CHOOSE d \in JsonDocuments : d[1] = response.text)[2])
    ELSE Raise("JSONDecodeError", "Expecting value: line 1 column 1 (char 0)")

\* The token the caller holds: the one generate_jwt last returned.
HeldTokens ==
    IF call.op = "generate_jwt" /\ call.outcome.kind = "return"
    THEN {call.outcome.value}
    ELSE IF call.op = "jwt_decode" THEN {call.input.token} ELSE {}

make_authenticated_request_retry(self, now, method, endpoint, data, params, reply) ==
    LET minted == generate_jwt(self, now, DefaultExpiresIn)
    IN  IF minted.kind = "raise"
        THEN [sent |-> <<>>, json_calls |-> 0, outcome |-> minted]
        ELSE LET token == minted.value
                 headers == ("Authorization" :> <<"Bearer ", token>>)
                                @@ ("Content-Type" :> "application/json")
                 url == self.base_url \o endpoint
                 request == [method |-> method, url |-> url, headers |-> headers,
                             json |-> data, params |-> params]
             IN  [sent |-> IF reply.kind = "raise" THEN <<request, request>>
                                                   ELSE <<request>>,
                  json_calls |-> 0, outcome |-> reply]

make_authenticated_request_cached(self, now, method, endpoint, data, params, reply) ==
    LET minted == IF HeldTokens # {}
                  THEN Return(CHOOSE t \in HeldTokens : TRUE)
                  ELSE generate_jwt(self, now, DefaultExpiresIn)
    IN  IF minted.kind = "raise"
        THEN [sent |-> <<>>, json_calls |-> 0, outcome |-> minted]
        ELSE LET token == minted.value
                 headers == ("Authorization" :> <<"Bearer ", token>>)
                                @@ ("Content-Type" :> "application/json")
                 url == self.base_url \o endpoint
                 request == [method |-> method, url |-> url, headers |-> headers,
                             json |-> data, params |-> params]
             IN  [sent |-> <<request>>, json_calls |-> 0, outcome |-> reply]

(***************************************************************************)
(* GroupVANClient.make_authenticated_request.  reply is what the transport *)
(* answers to the request.  The result holds the requests sent, the number *)
(* of Response.json() calls made and the outcome of the call.              *)
(***************************************************************************)
make_authenticated_request(self, now, method, endpoint, data, params, reply) ==
    LET minted == generate_jwt(self, now, DefaultExpiresIn)
    IN  IF minted.kind = "raise"
        THEN [sent |-> <<>>, json_calls |-> 0, outcome |-> minted]
        ELSE LET token == minted.value
                 headers == ("Authorization" :> <<"Bearer ", token>>)
                                @@ ("Content-Type" :> "application/json")
                 url == self.base_url \o endpoint
                 request == [method |-> method, url |-> url, headers |-> headers,
                             json |-> data, params |-> params]
             IN  [sent |-> <<request>>, json_calls |-> 0, outcome |-> reply]

get_catalog_accepts_2xx(self, now, catalog_id, reply) ==
    LET r == make_authenticated_request(self, now, "GET",
                                        "/catalogs/" \o catalog_id, None, None, reply)
        response == r.outcome.value
    IN  IF r.outcome.kind = "raise"
        THEN r
        ELSE IF response.status_code >= 200 /\ response.status_code < 300
        THEN [r EXCEPT !.json_calls = @ + 1, !.outcome = response_json(response)]
        ELSE [r EXCEPT !.outcome =
                 Raise("Exception",
                       "Failed to get catalog: " \o Str(response.status_code)
                           \o " - " \o response.text)]

get_catalog_wraps_errors(self, now, catalog_id, reply) ==
    LET r == make_authenticated_request(self, now, "GET",
                                        "/catalogs/" \o catalog_id, None, None, reply)
        response == r.outcome.value
    IN  IF r.outcome.kind = "raise"
        THEN [r EXCEPT !.outcome =
                 Raise("Exception",
                       "Failed to get catalog: " \o r.outcome.value.message)]
        ELSE IF response.status_code = StatusOk
        THEN [r EXCEPT !.json_calls = @ + 1, !.outcome = response_json(response)]
        ELSE [r EXCEPT !.outcome =
                 Raise("Exception",
                       "Failed to get catalog: " \o Str(response.status_code)
                           \o " - " \o response.text)]

(***************************************************************************)
(* GroupVANClient.get_catalog                                              *)
(***************************************************************************)
get_catalog(self, now, catalog_id, reply) ==
    LET r == make_authenticated_request(self, now, "GET",
                                        "/catalogs/" \o catalog_id, None, None, reply)
        response == r.outcome.value
    IN  IF r.outcome.kind = "raise"
        THEN r
        ELSE IF response.status_code = StatusOk
        THEN [r EXCEPT !.json_calls = @ + 1, !.outcome = response_json(response)]
        ELSE [r EXCEPT !.outcome =
                 Raise("Exception",
                       "Failed to get catalog: " \o Str(response.status_code)
                           \o " - " \o response.text)]

list_catalogs_copied_message(self, now, limit, offset, reply) ==
    LET r == make_authenticated_request(self, now, "GET", "/catalogs", None,
                                        Some([limit |-> limit, offset |-> offset]),
                                        reply)
        response == r.outcome.value
    IN  IF r.outcome.kind = "raise"
        THEN r
        ELSE IF response.status_code = StatusOk
        THEN [r EXCEPT !.json_calls = @ + 1, !.outcome = response_json(response)]
        ELSE [r EXCEPT !.outcome =
                 Raise("Exception",
                       "Failed to get catalog: " \o Str(response.status_code)
                           \o " - " \o response.text)]

list_catalogs_swapped_params(self, now, limit, offset, reply) ==
    LET r == make_authenticated_request(self, now, "GET", "/catalogs", None,
                                        Some([limit |-> offset, offset |-> limit]),
                                        reply)
        response == r.outcome.value
    IN  IF r.outcome.kind = "raise"
        THEN r
        ELSE IF response.status_code = StatusOk
        THEN [r EXCEPT !.json_calls = @ + 1, !.outcome = response_json(response)]
        ELSE [r EXCEPT !.outcome =
                 Raise("Exception",
                       "Failed to list catalogs: " \o Str(response.status_code)
                           \o " - " \o response.text)]

(***************************************************************************)
(* GroupVANClient.list_catalogs                                            *)
(***************************************************************************)
list_catalogs(self, now, limit, offset, reply) ==
    LET r == make_authenticated_request(self, now, "GET", "/catalogs", None,
                                        Some([limit |-> limit, offset |-> offset]),
                                        reply)
        response == r.outcome.value
    IN  IF r.outcome.kind = "raise"
        THEN r
        ELSE IF response.status_code = StatusOk
        THEN [r EXCEPT !.json_calls = @ + 1, !.outcome = response_json(response)]
        ELSE [r EXCEPT !.outcome =
                 Raise("Exception",
                       "Failed to list catalogs: " \o Str(response.status_code)
                           \o " - " \o response.text)]

(***************************************************************************)
(* jwt.decode(token, key, algorithms, audience) at clock value now: the    *)
(* algorithm and the signature are checked first, then iat, exp and aud.   *)
(***************************************************************************)
jwt_decode(token, key, algorithms, audience, now) ==
    IF token.header["alg"] \notin algorithms
    THEN Raise("InvalidAlgorithmError", "The specified alg value is not allowed")
    ELSE IF ~ /\ <<token.signature.signer, key>> \in KeyPairs
              /\ token.signature.alg = token.header["alg"]
              /\ token.signature.signing_input = <<token.header, token.payload>>
    THEN Raise("InvalidSignatureError", "Signature verification failed")
    ELSE IF token.payload.iat * TicksPerSecond > now
    THEN Raise("ImmatureSignatureError", "The token is not yet valid (iat)")
    ELSE IF token.payload.exp * TicksPerSecond <= now
    THEN Raise("ExpiredSignatureError", "Signature has expired")
    ELSE IF token.payload.aud # audience
    THEN Raise("InvalidAudienceError", "Audience doesn't match")
    ELSE Return(token.payload)

(***************************************************************************)
(* The state: the client object, the wall clock, and the record of the     *)
(* last call made on the client (its arguments, what the environment       *)
(* answered, the requests it sent and how it ended).                       *)
(***************************************************************************)
CallRecord(op, input, sent, json_calls, outcome) ==
    [op |-> op, input |-> input, sent |-> sent,
     json_calls |-> json_calls, outcome |-> outcome]

Init ==
    /\ \E c \in Credentials : client = GroupVANClient(c[1], c[2], c[3])
    /\ clock \in ClockValues
    /\ call = CallRecord("__init__", [now |-> clock], <<>>, 0, Return(None))

\* time passes between calls
Tick ==
    /\ \E t \in ClockValues : t > clock /\ clock' = t
    /\ UNCHANGED <<client, call>>

\* token = client.generate_jwt() or client.generate_jwt(expires_in=e)
GenerateJwt ==
    \E arg \in ExpiresInArgs :
        LET expires_in == IF arg = None THEN DefaultExpiresIn ELSE arg[1]
        IN  /\ call' = CallRecord("generate_jwt",
                                  [expires_in |-> arg, now |-> clock],
                                  <<>>, 0,
                                  generate_jwt(client, clock, expires_in))
            /\ UNCHANGED <<client, clock>>

\* response = client.make_authenticated_request(method, endpoint, data, params)
RequestArgs ==
    {[method |-> "GET", endpoint |-> "/catalogs/123", data |-> None, params |-> None],
     [method |-> "POST", endpoint |-> "/catalogs",
      data |-> Some([name |-> "Test Catalog"]), params |-> None],
     [method |-> "DELETE", endpoint |-> "/catalogs/123", data |-> None,
      params |-> Some([force |-> "true"])]}

MakeAuthenticatedRequest ==
    \E a \in RequestArgs, reply \in Replies :
        LET r == make_authenticated_request(client, clock, a.method, a.endpoint,
                                            a.data, a.params, reply)
        IN  /\ call' = CallRecord("make_authenticated_request",
                                  [method |-> a.method, endpoint |-> a.endpoint,
                                   data |-> a.data, params |-> a.params,
                                   reply |-> reply, now |-> clock],
                                  r.sent, r.json_calls, r.outcome)
            /\ UNCHANGED <<client, clock>>

\* catalog = client.get_catalog(catalog_id)
CatalogIds == {"catalog_123", "invalid_catalog"}

GetCatalog ==
    \E catalog_id \in CatalogIds, reply \in Replies :
        LET r == get_catalog(client, clock, catalog_id, reply)
        IN  /\ call' = CallRecord("get_catalog",
                                  [catalog_id |-> catalog_id, reply |-> reply,
                                   now |-> clock],
                                  r.sent, r.json_calls, r.outcome)
            /\ UNCHANGED <<client, clock>>

\* catalogs = client.list_catalogs(), client.list_catalogs(limit=5), ...
LimitArgs == {None, Some(5)}
OffsetArgs == {None, Some(20)}

ListCatalogs ==
    \E limit \in LimitArgs, offset \in OffsetArgs, reply \in Replies :
        LET r == list_catalogs(client, clock,
                               IF limit = None THEN DefaultLimit ELSE limit[1],
                               IF offset = None THEN DefaultOffset ELSE offset[1],
                               reply)
        IN  /\ call' = CallRecord("list_catalogs",
                                  [limit |-> limit, offset |-> offset,
                                   reply |-> reply, now |-> clock],
                                  r.sent, r.json_calls, r.outcome)
            /\ UNCHANGED <<client, clock>>

\* jwt.decode(token, public_key_pem, algorithms=["RS256"], audience="groupvan")
JwtDecode ==
    \E token \in HeldTokens, key \in PublicKeys :
        /\ call' = CallRecord("jwt_decode",
                              [token |-> token, key |-> key, now |-> clock],
                              <<>>, 0,
                              jwt_decode(token, key, {"RS256"}, "groupvan", clock))
        /\ UNCHANGED <<client, clock>>

Next ==
    \/ Tick
    \/ GenerateJwt
    \/ MakeAuthenticatedRequest
    \/ GetCatalog
    \/ ListCatalogs
    \/ JwtDecode

Spec == Init /\ [][Next]_vars

----------------------------------------------------------------------------
Returned(op) == call.op = op /\ call.outcome.kind = "return"

\* The lifetime a generate_jwt call asked for.
RequestedLifetime == IF call.input.expires_in = None THEN 300 ELSE call.input.expires_in[1]

\* The clock value of the call, floored to whole seconds, stated without FloorSeconds.
IsFloorOf(s, now) == s * TicksPerSecond <= now /\ now < (s + 1) * TicksPerSecond

\* C1: every token generate_jwt returns has exp - iat equal to the requested
\* lifetime (300 when omitted), and iat is the floor of the clock of the call.
C1_LifetimeIsExpMinusIat ==
    Returned("generate_jwt") =>
        LET payload == call.outcome.value.payload
        IN  /\ payload.exp - payload.iat = RequestedLifetime
            /\ IsFloorOf(payload.iat, call.input.now)

C1_Witness ==
    /\ Returned("generate_jwt")
    /\ call.input.expires_in = Some(600)
    /\ call.input.now % TicksPerSecond # 0
    /\ call.outcome.value.payload.exp - call.outcome.value.payload.iat = 600

\* C2: every token generate_jwt returns has exp > iat, whatever integer
\* expires_in is given.
C2_ExpAfterIat ==
    Returned("generate_jwt") =>
        call.outcome.value.payload.exp > call.outcome.value.payload.iat

\* The tokens generate_jwt returned in the last call: to the caller, or to
\* make_authenticated_request, which put them in a request.
TokensOfCall ==
    (IF Returned("generate_jwt") THEN {call.outcome.value} ELSE {})
        \cup {call.sent[i].headers["Authorization"][2] : i \in 1..Len(call.sent)}

\* C3: the header of every token generate_jwt returns has alg = "RS256",
\* gv-ver = "GV-JWT-V1" and kid = the client's key_id, which is also the
\* payload's kid.
C3_HeaderFields ==
    \A token \in TokensOfCall :
        /\ {"alg", "gv-ver", "kid"} \subseteq DOMAIN token.header
        /\ token.header["alg"] = "RS256"
        /\ token.header["gv-ver"] = "GV-JWT-V1"
        /\ token.header["kid"] = client.key_id
        /\ "kid" \in DOMAIN token.payload
        /\ token.header["kid"] = token.payload["kid"]

C3_Witness ==
    /\ Returned("generate_jwt")
    /\ client.key_id = "test_key_456"
    /\ call.outcome.value.header["kid"] = "test_key_456"

\* C4: the payload of every token generate_jwt returns has exactly the fields
\* aud, iss, kid, iat, exp, with aud = "groupvan", iss = the client's
\* developer_id and kid = the client's key_id.
C4_PayloadFields ==
    \A token \in TokensOfCall :
        /\ DOMAIN token.payload = {"aud", "iss", "kid", "iat", "exp"}
        /\ token.payload["aud"] = "groupvan"
        /\ token.payload["iss"] = client.developer_id
        /\ token.payload["kid"] = client.key_id

C4_Witness ==
    /\ Returned("generate_jwt")
    /\ client.developer_id = "test_dev_123"
    /\ call.outcome.value.payload["iss"] = "test_dev_123"
    /\ call.outcome.value.payload["kid"] = "test_key_456"

----------------------------------------------------------------------------
\* The last call was op, it sent its request and the transport answered with a
\* response (rather than raising).
OnResponse(op) ==
    /\ call.op = op
    /\ call.sent # <<>>
    /\ call.input.reply.kind = "return"

Status == call.input.reply.value.status_code
Text == call.input.reply.value.text

\* The values the body text stands for as JSON: none when it is not JSON.
JsonOf(text) == {d[2] : d \in {e \in JsonDocuments : e[1] = text}}

StartsWith(s, prefix) ==
    Len(s) >= Len(prefix) /\ SubSeq(s, 1, Len(prefix)) = prefix

Contains(s, part) ==
    \E i \in 1..(Len(s) - Len(part) + 1) : SubSeq(s, i, i + Len(part) - 1) = part

FailedPrefix(op) ==
    IF op = "get_catalog" THEN "Failed to get catalog" ELSE "Failed to list catalogs"

ConvenienceOps == {"get_catalog", "list_catalogs"}

\* C5 as stated, on responses whose body is JSON: get_catalog and list_catalogs
\* raise if and only if the status is outside 200..299, and return the parsed
\* body for every status in 200..299.
C5_RaisesIffNot2xx ==
    \A op \in ConvenienceOps :
        OnResponse(op) /\ JsonOf(Text) # {} =>
            IF Status \in 200..299
            THEN call.outcome.kind = "return" /\ call.outcome.value \in JsonOf(Text)
            ELSE call.outcome.kind = "raise"

\* C5 amended: get_catalog and list_catalogs raise their "Failed to ..." error
\* if and only if the status is not 200.  On status 200 they return the parsed
\* JSON body unchanged, or let the decoding error of Response.json() through
\* when the body is not JSON; on every other status, 201..299 included, they
\* raise.
C5_RaisesIffNot200 ==
    \A op \in ConvenienceOps :
        OnResponse(op) =>
            IF Status = 200
            THEN IF JsonOf(Text) # {}
                 THEN /\ call.outcome.kind = "return"
                      /\ call.outcome.value \in JsonOf(Text)
                 ELSE /\ call.outcome.kind = "raise"
                      /\ call.outcome.value.type = "JSONDecodeError"
            ELSE /\ call.outcome.kind = "raise"
                 /\ call.outcome.value.type = "Exception"
                 /\ StartsWith(call.outcome.value.message, FailedPrefix(op))

C5_Witness ==
    /\ OnResponse("get_catalog")
    /\ Status = 201
    /\ JsonOf(Text) # {}
    /\ call.outcome.kind = "raise"

\* The message of the error the last call raised names the operation, the
\* status code and the body text, and the body was not parsed.
IsFailedMessage(op) ==
    /\ StartsWith(call.outcome.value.message, FailedPrefix(op))
    /\ Contains(call.outcome.value.message, Str(Status))
    /\ Contains(call.outcome.value.message, Text)
    /\ call.json_calls = 0

\* C6 as stated: whenever get_catalog or list_catalogs raises on a response,
\* the message starts with "Failed to get catalog" / "Failed to list catalogs"
\* and contains the status code and the body text, and the body was not parsed
\* as JSON.
C6_EveryRaiseIsFailedMessage ==
    \A op \in ConvenienceOps :
        OnResponse(op) /\ call.outcome.kind = "raise" => IsFailedMessage(op)

\* C6 amended: whenever get_catalog or list_catalogs raises on a response whose
\* status is not 200, the message starts with "Failed to get catalog" /
\* "Failed to list catalogs" and contains the status code and the body text,
\* and the body was not parsed as JSON.  (On a 200 response whose body is not
\* JSON the decoding error of Response.json() is what the caller gets.)
C6_Non200RaiseIsFailedMessage ==
    \A op \in ConvenienceOps :
        OnResponse(op) /\ call.outcome.kind = "raise" /\ Status # 200 =>
            IsFailedMessage(op)

C6_Witness ==
    /\ OnResponse("list_catalogs")
    /\ Status = 404
    /\ call.outcome.kind = "raise"
    /\ call.outcome.value.message = "Failed to list catalogs: 404 - Catalog not found"

\* The token of a call is minted when the client's key is a private key.
MintsToken == client.private_key_pem \in PrivateKeys

\* C7: list_catalogs(limit, offset) sends one GET request to base_url +
\* "/catalogs" whose query parameters are exactly limit and offset as supplied
\* (10 and 0 when omitted), with no body, and on a 200 response returns the
\* parsed JSON body unchanged.  (The call is one whose token is minted, and the
\* 200 body is JSON.)
C7_ListCatalogsRequest ==
    call.op = "list_catalogs" /\ MintsToken =>
        /\ Len(call.sent) = 1
        /\ call.sent[1].method = "GET"
        /\ call.sent[1].url = "https://api.groupvan.com/v3/catalogs"
        /\ call.sent[1].json = None
        /\ Len(call.sent[1].params) = 1
        /\ DOMAIN call.sent[1].params[1] = {"limit", "offset"}
        /\ call.sent[1].params[1]["limit"] =
               (IF call.input.limit = None THEN 10 ELSE call.input.limit[1])
        /\ call.sent[1].params[1]["offset"] =
               (IF call.input.offset = None THEN 0 ELSE call.input.offset[1])
        /\ (call.input.reply.kind = "return" /\ Status = 200 /\ JsonOf(Text) # {}
               => call.outcome.kind = "return" /\ call.outcome.value \in JsonOf(Text))

C7_Witness ==
    /\ OnResponse("list_catalogs")
    /\ call.input.limit = Some(5)
    /\ call.input.offset = None
    /\ call.sent[1].params[1] = [limit |-> 5, offset |-> 0]
    /\ Status = 200
    /\ call.outcome = Return([id |-> "catalog_123"])

\* C8: a make_authenticated_request call that mints its token issues exactly
\* one request, with the given method, URL "https://api.groupvan.com/v3" +
\* endpoint, headers Authorization = "Bearer " + token and Content-Type =
\* "application/json", body data and query params as given, and returns the
\* transport's response unmodified whatever its status.
C8_OneRequestRawResponse ==
    call.op = "make_authenticated_request" /\ MintsToken =>
        /\ Len(call.sent) = 1
        /\ call.sent[1].method = call.input.method
        /\ call.sent[1].url = "https://api.groupvan.com/v3" \o call.input.endpoint
        /\ DOMAIN call.sent[1].headers = {"Authorization", "Content-Type"}
        /\ call.sent[1].headers["Content-Type"] = "application/json"
        /\ Len(call.sent[1].headers["Authorization"]) = 2
        /\ call.sent[1].headers["Authorization"][1] = "Bearer "
        /\ call.sent[1].headers["Authorization"][2].signature.signer
               = client.private_key_pem
        /\ call.sent[1].json = call.input.data
        /\ call.sent[1].params = call.input.params
        /\ (call.input.reply.kind = "return" =>
               /\ call.outcome.kind = "return"
               /\ call.outcome.value = call.input.reply.value)
        /\ call.json_calls = 0

C8_Witness ==
    /\ OnResponse("make_authenticated_request")
    /\ call.input.method = "POST"
    /\ call.input.data # None
    /\ Status = 404
    /\ call.outcome = Return([status_code |-> 404, text |-> "Catalog not found"])

----------------------------------------------------------------------------
\* The last call decoded a token of this client with the public key of the
\* pair its private key belongs to.
SameKeyPair == <<client.private_key_pem, call.input.key>> \in KeyPairs

\* The clock of the decoding call is at or after the token's iat and before
\* its exp.
DecodedWhileValid ==
    /\ call.input.token.payload["iat"] * TicksPerSecond <= call.input.now
    /\ call.input.now < call.input.token.payload["exp"] * TicksPerSecond

\* C9 as stated, on tokens whose lifetime is positive: a token of generate_jwt
\* verifies (RS256, audience "groupvan") against the public key of the same
\* pair and yields the same payload, and fails against the public key of any
\* other pair.
C9_VerifiesWithOwnKeyOnly ==
    /\ call.op = "jwt_decode"
    /\ call.input.token.payload["exp"] > call.input.token.payload["iat"]
    =>  IF SameKeyPair
        THEN call.outcome = Return(call.input.token.payload)
        ELSE call.outcome.kind = "raise"

\* C9 amended: a token of generate_jwt, decoded (RS256, audience "groupvan")
\* at a clock value from its iat up to but excluding its exp, verifies against
\* the public key of the same pair and yields the same payload; it fails
\* against the public key of any other pair at every clock value, and from its
\* exp on it fails against every key.
C9_VerifiesWithOwnKeyWhileValid ==
    call.op = "jwt_decode" =>
        /\ SameKeyPair /\ DecodedWhileValid =>
               call.outcome = Return(call.input.token.payload)
        /\ ~SameKeyPair => call.outcome.kind = "raise"
        /\ call.input.now >= call.input.token.payload["exp"] * TicksPerSecond =>
               call.outcome.kind = "raise"

C9_Witness ==
    /\ call.op = "jwt_decode"
    /\ SameKeyPair
    /\ call.input.token.payload["iat"] = 0
    /\ call.input.token.payload["exp"] = 300
    /\ call.input.now = (299 * TicksPerSecond) + 1
    /\ call.outcome = Return(call.input.token.payload)

\* The requests of the last call each carry a token minted in that call: iat is
\* the floor of the call's clock value, exp is iat + 300, and it is signed with
\* the client's key for the client's identifiers.
RequestsCarryFreshToken ==
    call.op \in {"make_authenticated_request", "get_catalog", "list_catalogs"} =>
        \A i \in 1..Len(call.sent) :
            LET token == call.sent[i].headers["Authorization"][2]
            IN  /\ IsFloorOf(token.payload["iat"], call.input.now)
                /\ token.payload["exp"] = token.payload["iat"] + 300
                /\ token.payload["iss"] = client.developer_id
                /\ token.signature.signer = client.private_key_pem

\* C10: no token is cached or reused: after any sequence of calls, every
\* request carries a token minted during its own call, with iat the floored
\* clock of that call and exp = iat + 300, whatever lifetimes earlier
\* generate_jwt calls used; and no operation changes developer_id, key_id,
\* private_key_pem or base_url.
C10_FreshTokenEveryCall ==
    /\ []RequestsCarryFreshToken
    /\ [][client' = client]_vars

C10_Witness ==
    /\ call.op = "get_catalog"
    /\ Len(call.sent) = 1
    /\ call.input.now = (300 * TicksPerSecond) + 1
    /\ call.sent[1].headers["Authorization"][2].payload["iat"] = 300
    /\ call.sent[1].headers["Authorization"][2].payload["exp"] = 600

----------------------------------------------------------------------------
RequestOps == {"make_authenticated_request", "get_catalog", "list_catalogs"}

\* C11: the token is minted before the request is sent.  When token building
\* fails in make_authenticated_request, get_catalog or list_catalogs (the
\* private key is malformed), the key error reaches the caller and the call
\* issues no HTTP request; when the transport raises, the caller gets that
\* very error, not a "Failed to ..." error.
C11_MintFailureSendsNothing ==
    call.op \in RequestOps =>
        /\ ~MintsToken =>
               /\ call.sent = <<>>
               /\ call.json_calls = 0
               /\ call.outcome.kind = "raise"
               /\ call.outcome.value.type = "InvalidKeyError"
        /\ MintsToken /\ call.input.reply.kind = "raise" =>
               /\ Len(call.sent) = 1
               /\ call.outcome = call.input.reply
               /\ ~StartsWith(call.outcome.value.message, "Failed to")

C11_Witness ==
    /\ call.op = "get_catalog"
    /\ client.private_key_pem = "not a key"
    /\ call.input.reply.kind = "return"
    /\ call.sent = <<>>
    /\ call.outcome.kind = "raise"
    /\ call.outcome.value.type = "InvalidKeyError"

====
